---- MODULE Spec2Model ----
(***************************************************************************)
(* Model of src/llm_server_py.py: the line protocol loop of main() and the *)
(* LLMServer object it drives.                                             *)
(*                                                                         *)
(* Python strings are sequences of symbols (a symbol is a chunk of         *)
(* characters; concatenation is \o), Python objects are tagged records.    *)
(* The Model Backend (transformers / torch) is the environment: each call  *)
(* into it either returns or raises, chosen nondeterministically, and is   *)
(* recorded in the log `backend`.                                          *)
(***************************************************************************)
EXTENDS Integers, Sequences, FiniteSets, TLC

VARIABLES
    pc,         \* position of main(): "start", "loop" (at `for line in sys.stdin`), "done"
    cuda,       \* torch.cuda.is_available(), fixed by the environment
    model,      \* LLMServer.model
    tokenizer,  \* LLMServer.tokenizer
    device,     \* LLMServer.device
    stdin,      \* the lines the loop has read so far, oldest first
    stdout,     \* the lines written to standard output, oldest first
    backend     \* the calls made into the Model Backend, oldest first

vars == <<pc, cuda, model, tokenizer, device, stdin, stdout, backend>>
server == <<model, tokenizer, device>>

\* The number of input lines a run reads at most.
MaxLines == 3

-----------------------------------------------------------------------------
\* Python values

PyNone == [t |-> "NoneType"]
PyStr(s) == [t |-> "str", s |-> s]
PyInt(n) == [t |-> "int", n |-> n]
\* a float, held in tenths (0.7 is 7)
PyFloat(tenths) == [t |-> "float", tenths |-> tenths]
PyList(items) == [t |-> "list", items |-> items]
PyDict(d) == [t |-> "dict", d |-> d]
\* an object the backend handed out; id tells the load that made it
Handle(id) == [t |-> "object", id |-> id]

\* bool(v)
Truthy(v) ==
    CASE v.t = "NoneType" -> FALSE
      [] v.t = "str" -> v.s # <<>>
      [] v.t = "int" -> v.n # 0
      [] v.t = "float" -> v.tenths # 0
      [] v.t = "list" -> v.items # <<>>
      [] v.t = "dict" -> DOMAIN v.d # {}
      [] OTHER -> TRUE

\* f"{v}" for the values that reach an f-string
Format(v) ==
    CASE v.t = "NoneType" -> <<"None">>
      [] v.t = "str" -> v.s
      [] OTHER -> <<"<", v.t, ">">>

\* dict.get(key, default)
DictGet(d, key, default) == IF key \in DOMAIN d THEN d[key] ELSE default

\* v >= 0 written for v > 0
GreaterThanZero_orEqual(v) == IF v.t = "float" THEN v.tenths >= 0 ELSE v.n >= 0

\* v > 0 for a number
GreaterThanZero(v) == IF v.t = "float" THEN v.tenths > 0 ELSE v.n > 0

DEFAULT_MAX_TOKENS == 128
DEFAULT_TEMPERATURE_TENTHS == 7

-----------------------------------------------------------------------------
\* Input lines

WS == " "
IsSpace(c) == c \in {" ", "\n"}

RECURSIVE LStrip(_)
LStrip(s) == IF s # <<>> /\ IsSpace(Head(s)) THEN LStrip(Tail(s)) ELSE s

RECURSIVE RStrip(_)
RStrip(s) ==
    IF s # <<>> /\ IsSpace(s[Len(s)]) THEN RStrip(SubSeq(s, 1, Len(s) - 1)) ELSE s

\* str.strip()
Strip(s) == RStrip(LStrip(s))

Cmd(name) == [command |-> PyStr(<<name>>)]

GenerateHi == [command |-> PyStr(<<"generate">>), prompt |-> PyStr(<<"Hi">>)]
GenerateFr ==
    [command |-> PyStr(<<"generate">>), prompt |-> PyStr(<<"Hi">>),
     target_lang |-> PyStr(<<"French">>),
     history |-> PyList(<<PyStr(<<"Hello">>), PyStr(<<"Bonjour">>), PyStr(<<"Bye">>)>>),
     max_tokens |-> PyInt(64), temperature |-> PyInt(0)]
GenerateBadHistory ==
    [command |-> PyStr(<<"generate">>), prompt |-> PyStr(<<"Hi">>), history |-> PyInt(5)]

\* The JSON documents the modelled caller sends, by their text.
Documents ==
    {"42", "{}", "{\"command\":\"bogus\"}", "{\"command\":\"load_model\"}",
     "{\"command\":\"test\"}", "{\"command\":\"shutdown\"}",
     "{\"command\":\"generate\",\"prompt\":\"Hi\"}",
     "{\"command\":\"generate\",\"prompt\":\"Hi\",\"target_lang\":\"French\",\"history\":[\"Hello\",\"Bonjour\",\"Bye\"],\"max_tokens\":64,\"temperature\":0}",
     "{\"command\":\"generate\",\"prompt\":\"Hi\",\"history\":5}"}

\* The value of one JSON document.
JsonValue(text) ==
    CASE text = "42" -> PyInt(42)
      [] text = "{}" -> PyDict(<<>>)
      [] text = "{\"command\":\"bogus\"}" -> PyDict(Cmd("bogus"))
      [] text = "{\"command\":\"load_model\"}" -> PyDict(Cmd("load_model"))
      [] text = "{\"command\":\"test\"}" -> PyDict(Cmd("test"))
      [] text = "{\"command\":\"shutdown\"}" -> PyDict(Cmd("shutdown"))
      [] text = "{\"command\":\"generate\",\"prompt\":\"Hi\"}" -> PyDict(GenerateHi)
      [] text = "{\"command\":\"generate\",\"prompt\":\"Hi\",\"history\":5}" ->
            PyDict(GenerateBadHistory)
      [] OTHER -> PyDict(GenerateFr)

\* json.loads(s): the value, or the JSONDecodeError it raises.
JsonLoads(s) ==
    IF s[1] \notin Documents
    THEN [raised |-> TRUE, exc |-> <<"Expecting value: line 1 column 1 (char 0)">>]
    ELSE IF Len(s) > 1
    THEN [raised |-> TRUE, exc |-> <<"Extra data: line 1 column 4 (char 3)">>]
    ELSE [raised |-> FALSE, value |-> JsonValue(s[1])]

\* The raw lines the modelled caller may send.
Lines ==
    {<<>>, <<WS, WS>>, <<"not json">>, <<"{}", WS, "{}">>,
     <<WS, "{\"command\":\"test\"}", WS>>}
    \cup {<<text>> : text \in Documents}

-----------------------------------------------------------------------------
\* LLMServer

\* The step of load_model at which the backend raises ("none": no step does).
LoadFailures ==
    {"AutoTokenizer.from_pretrained", "AutoModelForCausalLM.from_pretrained",
     "model.to", "none"}

\* The number of load_model calls made so far.
Loads == Cardinality({i \in DOMAIN backend : backend[i].op = "AutoTokenizer.from_pretrained"})

\* one call into the backend; raised tells whether it raised
Call(op, raised) == [op |-> op, raised |-> raised]

\* The calls load_model makes when the backend raises at step `fail`: the steps
\* in order (model.to only on the cpu, line 61), up to the one that raises.
LoadCalls(fail) ==
    LET steps == IF cuda
                 THEN <<"AutoTokenizer.from_pretrained", "AutoModelForCausalLM.from_pretrained">>
                 ELSE <<"AutoTokenizer.from_pretrained", "AutoModelForCausalLM.from_pretrained",
                        "model.to">>
        last == IF \E i \in DOMAIN steps : steps[i] = fail
                THEN CHOOSE i \in DOMAIN steps : steps[i] = fail
                ELSE Len(steps)
    IN  [i \in 1..last |-> Call(steps[i], steps[i] = fail)]

\* LLMServer.load_model(): the fields it leaves, what it returns and the backend
\* calls it makes, when the backend raises at step `fail`.
load_model_clears(fail) ==
    LET dev == PyStr(<<IF cuda THEN "cuda" ELSE "cpu">>)
        new == Handle(Loads + 1)
    IN  CASE fail = "none" ->
                [device |-> dev, tokenizer |-> new, model |-> new,
                 calls |-> LoadCalls(fail), ret |-> TRUE]
          [] OTHER ->
                [device |-> dev, tokenizer |-> PyNone, model |-> PyNone,
                 calls |-> LoadCalls(fail), ret |-> FALSE]

\* the model acquired before the tokenizer
load_model_modelFirst(fail) ==
    LET dev == PyStr(<<IF cuda THEN "cuda" ELSE "cpu">>)
        new == Handle(Loads + 1)
    IN  CASE fail = "AutoModelForCausalLM.from_pretrained" ->
                [device |-> dev, tokenizer |-> tokenizer, model |-> model,
                 calls |-> LoadCalls(fail), ret |-> FALSE]
          [] fail = "AutoTokenizer.from_pretrained" ->
                [device |-> dev, tokenizer |-> tokenizer, model |-> new,
                 calls |-> LoadCalls(fail), ret |-> FALSE]
          [] fail = "model.to" ->
                [device |-> dev, tokenizer |-> new, model |-> new,
                 calls |-> LoadCalls(fail), ret |-> FALSE]
          [] OTHER ->
                [device |-> dev, tokenizer |-> new, model |-> new,
                 calls |-> LoadCalls(fail), ret |-> TRUE]

load_model(fail) ==
    LET dev == PyStr(<<IF cuda THEN "cuda" ELSE "cpu">>)
        new == Handle(Loads + 1)
    IN  CASE fail = "AutoTokenizer.from_pretrained" ->
                [device |-> dev, tokenizer |-> tokenizer, model |-> model,
                 calls |-> LoadCalls(fail), ret |-> FALSE]
          [] fail = "AutoModelForCausalLM.from_pretrained" ->
                [device |-> dev, tokenizer |-> new, model |-> model,
                 calls |-> LoadCalls(fail), ret |-> FALSE]
          [] fail = "model.to" ->
                [device |-> dev, tokenizer |-> new, model |-> new,
                 calls |-> LoadCalls(fail), ret |-> FALSE]
          [] OTHER ->
                [device |-> dev, tokenizer |-> new, model |-> new,
                 calls |-> LoadCalls(fail), ret |-> TRUE]

Message(role, content) == [role |-> role, content |-> content]

\* `is not None` written for the truth test: an empty target_lang translates
SystemMessage_whenPresent(target_lang) ==
    IF target_lang # PyNone
    THEN Message("system",
            PyStr(<<"You are a helpful assistant that translates text to ">>
                  \o Format(target_lang)
                  \o <<". Continue the conversation without explanation.">>))
    ELSE Message("system",
            PyStr(<<"You are Qwen, created by Alibaba Cloud. You are a helpful assistant.">>))

\* the system message (lines 78-82)
SystemMessage(target_lang) ==
    IF Truthy(target_lang)
    THEN Message("system",
            PyStr(<<"You are a helpful assistant that translates text to ">>
                  \o Format(target_lang)
                  \o <<". Continue the conversation without explanation.">>))
    ELSE Message("system",
            PyStr(<<"You are Qwen, created by Alibaba Cloud. You are a helpful assistant.">>))

\* the parity taken of the position counted from one
HistoryMessages_flipped(history) ==
    IF Truthy(history)
    THEN [i \in 1..Len(history.items) |->
            Message(IF i % 2 = 0 THEN "user" ELSE "assistant", history.items[i])]
    ELSE <<>>

\* the history messages (lines 85-88)
HistoryMessages(history) ==
    IF Truthy(history)
    THEN [i \in 1..Len(history.items) |->
            Message(IF (i - 1) % 2 = 0 THEN "user" ELSE "assistant", history.items[i])]
    ELSE <<>>

\* enumerate(history) raises TypeError for a truthy value that is no sequence
HistoryRaises(history) == Truthy(history) /\ history.t \notin {"list", "str", "dict"}

\* the conversation (lines 75-91)
BuildMessages(prompt, target_lang, history) ==
    <<SystemMessage(target_lang)>> \o HistoryMessages(history) \o <<Message("user", prompt)>>

\* s[i..] starts with sep
StartsAt(s, i, sep) ==
    /\ i + Len(sep) - 1 <= Len(s)
    /\ \A k \in 1..Len(sep) : s[i + k - 1] = sep[k]

\* sep in s
Contains(s, sep) == \E i \in 1..Len(s) : StartsAt(s, i, sep)

\* s.split(sep)[-1]: split cuts at the occurrences of sep found from the left
RECURSIVE SplitLast(_, _)
SplitLast(s, sep) ==
    IF Contains(s, sep)
    THEN LET i == CHOOSE j \in 1..Len(s) :
                    StartsAt(s, j, sep) /\ \A k \in 1..(j - 1) : ~StartsAt(s, k, sep)
         IN  SplitLast(SubSeq(s, i + Len(sep), Len(s)), sep)
    ELSE s

\* the two tests in the other order: the bare marker is looked for first
Extract_bareFirst(response) ==
    IF Contains(response, <<"assistant">>)
    THEN Strip(SplitLast(response, <<"assistant">>))
    ELSE IF Contains(response, <<"assistant", "\n">>)
    THEN Strip(SplitLast(response, <<"assistant", "\n">>))
    ELSE response

\* the response extraction (lines 118-123)
Extract(response) ==
    IF Contains(response, <<"assistant", "\n">>)
    THEN Strip(SplitLast(response, <<"assistant", "\n">>))
    ELSE IF Contains(response, <<"assistant">>)
    THEN Strip(SplitLast(response, <<"assistant">>))
    ELSE response

\* The step of generate at which the backend raises ("none": no step does).
GenerateFailures ==
    {"tokenizer.apply_chat_template", "tokenizer", "model.generate", "tokenizer.decode",
     "none"}

\* The texts the backend decodes its output to.
DecodedTexts ==
    {<<"system", "\n", "user", "\n", "Hi", "\n", "assistant", "\n", "Hello there">>,
     <<"Hello", " ">>}

\* The calls generate makes when the backend raises at step `fail`: the steps
\* in order (lines 94, 101, 105, 114), up to the one that raises; decode
\* returns the text `decoded`.
GenerateCalls(messages, max_new_tokens, temperature, fail, decoded) ==
    LET steps == <<[op |-> "tokenizer.apply_chat_template", messages |-> messages,
                    add_generation_prompt |-> TRUE],
                   [op |-> "tokenizer"],
                   [op |-> "model.generate", max_new_tokens |-> max_new_tokens,
                    temperature |-> temperature,
                    do_sample |-> GreaterThanZero(temperature)],
                   IF fail = "tokenizer.decode"
                   THEN [op |-> "tokenizer.decode"]
                   ELSE [op |-> "tokenizer.decode", returned |-> decoded]>>
        last == IF \E i \in DOMAIN steps : steps[i].op = fail
                THEN CHOOSE i \in DOMAIN steps : steps[i].op = fail
                ELSE Len(steps)
    IN  [i \in 1..last |-> [raised |-> steps[i].op = fail] @@ steps[i]]

\* LLMServer.generate(): what it returns or raises and the backend calls it
\* makes, when the backend raises at step `fail` and decodes to `decoded`.
generate_retries(prompt, target_lang, history, max_new_tokens, temperature, fail, decoded) ==
    LET calls == GenerateCalls(BuildMessages(prompt, target_lang, history),
                               max_new_tokens, temperature, fail, decoded)
        again == GenerateCalls(BuildMessages(prompt, target_lang, history),
                               max_new_tokens, temperature, "none", decoded)
    IN  IF HistoryRaises(history)
        THEN [raised |-> TRUE, exc |-> <<"'", history.t, "' object is not iterable">>,
              calls |-> <<>>]
        ELSE IF fail # "none"
        THEN [raised |-> FALSE, ret |-> Extract(decoded), calls |-> calls \o again]
        ELSE [raised |-> FALSE, ret |-> Extract(decoded), calls |-> calls]

Last_messages(calls) == calls[Len(calls)].messages

\* the messages kept on the server and grown from one call to the next
generate_persists(prompt, target_lang, history, max_new_tokens, temperature, fail, decoded) ==
    LET before == SelectSeq(backend, LAMBDA c : c.op = "tokenizer.apply_chat_template")
        kept == IF before = <<>> THEN <<>> ELSE Last_messages(before)
        calls == GenerateCalls(kept \o BuildMessages(prompt, target_lang, history),
                               max_new_tokens, temperature, fail, decoded)
    IN  IF HistoryRaises(history)
        THEN [raised |-> TRUE, exc |-> <<"'", history.t, "' object is not iterable">>,
              calls |-> <<>>]
        ELSE IF fail # "none"
        THEN [raised |-> TRUE, exc |-> <<fail>>, calls |-> calls]
        ELSE [raised |-> FALSE, ret |-> Extract(decoded), calls |-> calls]

generate(prompt, target_lang, history, max_new_tokens, temperature, fail, decoded) ==
    LET calls == GenerateCalls(BuildMessages(prompt, target_lang, history),
                               max_new_tokens, temperature, fail, decoded)
    IN  IF HistoryRaises(history)
        THEN [raised |-> TRUE, exc |-> <<"'", history.t, "' object is not iterable">>,
              calls |-> <<>>]
        ELSE IF fail # "none"
        THEN [raised |-> TRUE, exc |-> <<fail>>, calls |-> calls]
        ELSE [raised |-> FALSE, ret |-> Extract(decoded), calls |-> calls]

-----------------------------------------------------------------------------
\* main()

\* json.dumps(response), one line of output
JsonDumps(response) == [json |-> response]
READY == [raw |-> <<"READY">>]

\* print(json.dumps(response), flush=True)
Respond(response) == stdout' = Append(stdout, JsonDumps(response))

\* json.loads(line) of a stripped, non-empty line
Parsed(line) == JsonLoads(Strip(line))
\* the line reaches the dispatch: request.get("command") returned
IsRequest(line) ==
    /\ Strip(line) # <<>>
    /\ ~Parsed(line).raised
    /\ Parsed(line).value.t = "dict"
Request(line) == Parsed(line).value.d
Command(line) == DictGet(Request(line), "command", PyNone)
IsCommand(line, name) == IsRequest(line) /\ Command(line) = PyStr(<<name>>)
Commands == {"load_model", "generate", "test", "shutdown"}

\* `for line in sys.stdin` hands out the next line
Read(line) ==
    /\ pc = "loop"
    /\ Len(stdin) < MaxLines
    /\ stdin' = Append(stdin, line)

\* the check made on the tokenizer instead of the model
ModelIsNone_tokenizer == tokenizer = PyNone

\* server.model is None (lines 187, 212)
ModelIsNone == model = PyNone

Init ==
    /\ pc = "start"
    /\ cuda \in BOOLEAN
    /\ model = PyNone
    /\ tokenizer = PyNone
    /\ device = PyNone
    /\ stdin = <<>>
    /\ stdout = <<>>
    /\ backend = <<>>

\* the model loaded at startup, before READY is printed
SignalReady_loadsFirst ==
    /\ pc = "start"
    /\ pc' = "loop"
    /\ LET r == load_model("none")
       IN  /\ model' = r.model
           /\ tokenizer' = r.tokenizer
           /\ device' = r.device
           /\ backend' = backend \o r.calls
    /\ stdout' = Append(stdout, READY)
    /\ UNCHANGED <<cuda, stdin>>

\* lines 163-168: the server object is made, READY is printed
SignalReady ==
    /\ pc = "start"
    /\ pc' = "loop"
    /\ stdout' = Append(stdout, READY)
    /\ UNCHANGED <<cuda, server, stdin, backend>>

\* lines 173-175: an empty line is skipped
SkipEmpty(line) ==
    /\ Read(line)
    /\ Strip(line) = <<>>
    /\ UNCHANGED <<pc, cuda, server, stdout, backend>>

\* lines 177, 225-228: json.loads raises JSONDecodeError
InvalidJson(line) ==
    /\ Read(line)
    /\ Strip(line) # <<>>
    /\ Parsed(line).raised
    /\ Respond([error |-> <<"Invalid JSON: ">> \o Parsed(line).exc])
    /\ UNCHANGED <<pc, cuda, server, backend>>

\* no generic handler: the AttributeError ends the loop
NotADict_fatal(line) ==
    /\ Read(line)
    /\ Strip(line) # <<>>
    /\ ~Parsed(line).raised
    /\ Parsed(line).value.t # "dict"
    /\ pc' = "done"
    /\ UNCHANGED <<cuda, server, stdout, backend>>

\* lines 178, 230-234: request.get raises AttributeError, the value is no dict
NotADict(line) ==
    /\ Read(line)
    /\ Strip(line) # <<>>
    /\ ~Parsed(line).raised
    /\ Parsed(line).value.t # "dict"
    /\ Respond([error |-> <<"'", Parsed(line).value.t, "' object has no attribute 'get'">>])
    /\ UNCHANGED <<pc, cuda, server, backend>>

\* load_model lets the exception through and the loop reports it as an error
CmdLoadModel_raises(line) ==
    /\ Read(line)
    /\ IsCommand(line, "load_model")
    /\ \E fail \in LoadFailures :
        /\ fail = "model.to" => ~cuda
        /\ LET r == load_model(fail)
           IN  /\ model' = r.model
               /\ tokenizer' = r.tokenizer
               /\ device' = r.device
               /\ backend' = backend \o r.calls
               /\ IF r.ret
                  THEN Respond([status |-> <<"loaded">>])
                  ELSE Respond([error |-> <<fail>>])
    /\ UNCHANGED <<pc, cuda>>

\* lines 180-184
CmdLoadModel(line) ==
    /\ Read(line)
    /\ IsCommand(line, "load_model")
    /\ \E fail \in LoadFailures :
        /\ fail = "model.to" => ~cuda
        /\ LET r == load_model(fail)
           IN  /\ model' = r.model
               /\ tokenizer' = r.tokenizer
               /\ device' = r.device
               /\ backend' = backend \o r.calls
               /\ Respond([status |-> IF r.ret THEN <<"loaded">> ELSE <<"failed">>])
    /\ UNCHANGED <<pc, cuda>>

\* the `continue` of line 190 left out: generate runs on the missing model
CmdGenerateNotLoaded_fallsThrough(line) ==
    /\ Read(line)
    /\ IsCommand(line, "generate")
    /\ ModelIsNone
    /\ stdout' = stdout \o <<JsonDumps([error |-> <<"Model not loaded">>]),
                             JsonDumps([error |-> <<"'NoneType' object has no attribute 'device'">>])>>
    /\ UNCHANGED <<pc, cuda, server, backend>>

\* lines 186-190
CmdGenerateNotLoaded(line) ==
    /\ Read(line)
    /\ IsCommand(line, "generate")
    /\ ModelIsNone
    /\ Respond([error |-> <<"Model not loaded">>])
    /\ UNCHANGED <<pc, cuda, server, backend>>

\* lines 192-208, 230-234: the fields of an admitted generate request are
\* read, server.generate runs and its result or its exception is printed
Admitted(request, fail, decoded) ==
    LET r == generate(DictGet(request, "prompt", PyStr(<<>>)),
                      DictGet(request, "target_lang", PyNone),
                      DictGet(request, "history", PyList(<<>>)),
                      DictGet(request, "max_tokens", PyInt(DEFAULT_MAX_TOKENS)),
                      DictGet(request, "temperature", PyFloat(DEFAULT_TEMPERATURE_TENTHS)),
                      fail, decoded)
    IN  /\ backend' = backend \o r.calls
        /\ IF r.raised
           THEN Respond([error |-> r.exc])
           ELSE Respond([text |-> r.ret, status |-> <<"success">>])

\* lines 186-208, 230-234
CmdGenerate(line) ==
    /\ Read(line)
    /\ IsCommand(line, "generate")
    /\ ~ModelIsNone
    /\ \E fail \in GenerateFailures, decoded \in DecodedTexts :
        /\ fail # "none" => decoded = CHOOSE d \in DecodedTexts : TRUE
        /\ Admitted(Request(line), fail, decoded)
    /\ UNCHANGED <<pc, cuda, server>>

\* `is None` written for `is not None`
CmdTest_inverted(line) ==
    /\ Read(line)
    /\ IsCommand(line, "test")
    /\ Respond([status |-> <<"ok">>, model_loaded |-> ModelIsNone])
    /\ UNCHANGED <<pc, cuda, server, backend>>

\* test loads the model when it is missing
CmdTest_loads(line) ==
    /\ Read(line)
    /\ IsCommand(line, "test")
    /\ LET r == IF ModelIsNone THEN load_model("none")
                ELSE [model |-> model, tokenizer |-> tokenizer, device |-> device,
                      calls |-> <<>>]
       IN  /\ model' = r.model
           /\ tokenizer' = r.tokenizer
           /\ device' = r.device
           /\ backend' = backend \o r.calls
           /\ Respond([status |-> <<"ok">>, model_loaded |-> TRUE])
    /\ UNCHANGED <<pc, cuda>>

\* lines 210-214
CmdTest(line) ==
    /\ Read(line)
    /\ IsCommand(line, "test")
    /\ Respond([status |-> <<"ok">>, model_loaded |-> ~ModelIsNone])
    /\ UNCHANGED <<pc, cuda, server, backend>>

\* `continue` written for `break`
CmdShutdown_continues(line) ==
    /\ Read(line)
    /\ IsCommand(line, "shutdown")
    /\ UNCHANGED <<pc, cuda, server, stdout, backend>>

\* lines 216-218
CmdShutdown(line) ==
    /\ Read(line)
    /\ IsCommand(line, "shutdown")
    /\ pc' = "done"
    /\ UNCHANGED <<cuda, server, stdout, backend>>

\* the else branch left empty
CmdUnknown_silent(line) ==
    /\ Read(line)
    /\ IsRequest(line)
    /\ \A name \in Commands : Command(line) # PyStr(<<name>>)
    /\ UNCHANGED <<pc, cuda, server, stdout, backend>>

\* lines 220-223
CmdUnknown(line) ==
    /\ Read(line)
    /\ IsRequest(line)
    /\ \A name \in Commands : Command(line) # PyStr(<<name>>)
    /\ Respond([error |-> <<"Unknown command: ">> \o Format(Command(line))])
    /\ UNCHANGED <<pc, cuda, server, backend>>

\* line 171: sys.stdin is exhausted, the loop ends
EndOfInput ==
    /\ pc = "loop"
    /\ pc' = "done"
    /\ UNCHANGED <<cuda, server, stdin, stdout, backend>>

Next ==
    \/ SignalReady
    \/ \E line \in Lines :
        \/ SkipEmpty(line)
        \/ InvalidJson(line)
        \/ NotADict(line)
        \/ CmdLoadModel(line)
        \/ CmdGenerateNotLoaded(line)
        \/ CmdGenerate(line)
        \/ CmdTest(line)
        \/ CmdShutdown(line)
        \/ CmdUnknown(line)
    \/ EndOfInput

Spec == Init /\ [][Next]_vars

\* The loop takes its next step whenever it has one: the input stream is
\* finite, so the iterator of line 171 hands out a line or ends, and every
\* backend call returns or raises.
FairSpec == Spec /\ WF_vars(Next)

-----------------------------------------------------------------------------
\* The generate command on a loaded server, over families of requests.  Here
\* the loop is followed from line 178 on: stdin holds the parsed requests.

\* The server after READY and one load_model command that succeeded.
LoadedInit ==
    /\ pc = "loop"
    /\ cuda \in BOOLEAN
    /\ model = Handle(1)
    /\ tokenizer = Handle(1)
    /\ device = PyStr(<<IF cuda THEN "cuda" ELSE "cpu">>)
    /\ stdin = <<Cmd("load_model")>>
    /\ stdout = <<READY, JsonDumps([status |-> <<"loaded">>])>>
    /\ backend = LoadCalls("none")

\* lines 186-208, 230-234 for the request of the line read
ServeGenerate(request, fail, decoded) ==
    /\ pc = "loop"
    /\ ~ModelIsNone
    /\ stdin' = Append(stdin, request)
    /\ Admitted(request, fail, decoded)
    /\ UNCHANGED <<pc, cuda, server>>

\* a field the request leaves out
Absent == [t |-> "absent"]
Field(name, value) == IF value = Absent THEN <<>> ELSE name :> value

\* The number of history entries a request carries at most.
MaxHistory == 3
SeqsUpTo(S, n) == UNION {[1..k -> S] : k \in 0..n}

\* The generate requests of the modelled caller, by their fields.
BuildRequests ==
    {Cmd("generate") @@ Field("prompt", p) @@ Field("target_lang", tl)
        @@ Field("history", h) @@ Field("max_tokens", mt) @@ Field("temperature", te) :
        p \in {Absent, PyStr(<<"Hi">>)},
        tl \in {Absent, PyNone, PyStr(<<>>), PyStr(<<"French">>)},
        h \in {Absent} \cup {PyList(q) : q \in SeqsUpTo({PyStr(<<"a">>), PyStr(<<"b">>)}, MaxHistory)},
        mt \in {Absent, PyInt(1), PyInt(64)},
        te \in {Absent, PyInt(0), PyInt(1), PyInt(-1), PyFloat(15), PyFloat(-5)}}

\* one generate request is served
BuildNext ==
    /\ Len(stdin) = 1
    /\ \E request \in BuildRequests, fail \in GenerateFailures :
            ServeGenerate(request, fail, CHOOSE d \in DecodedTexts : TRUE)

BuildSpec == LoadedInit /\ [][BuildNext]_vars

\* The number of symbols of a decoded text at most.
MaxText == 4

\* The texts the backend may decode to: the marker word, newline, blank, other text.
AllTexts == SeqsUpTo({"assistant", "\n", " ", "x"}, MaxText)

\* one generate request is served, the backend decoding to any text
ExtractNext ==
    /\ Len(stdin) = 1
    /\ \E decoded \in AllTexts : ServeGenerate(GenerateHi, "none", decoded)

ExtractSpec == LoadedInit /\ [][ExtractNext]_vars

\* The number of generate requests a run serves at most.
MaxGenerates == 3

\* Requests that share and that differ in prompt, target_lang and history.
ConvRequests ==
    {GenerateHi, GenerateHi @@ ("temperature" :> PyInt(0)), GenerateFr,
     [GenerateFr EXCEPT !.history = PyList(<<PyStr(<<"Hola">>)>>)]}

\* generate requests are served one after the other
ConvNext ==
    /\ Len(stdin) <= MaxGenerates
    /\ \E request \in ConvRequests, fail \in {"none", "model.generate"} :
            ServeGenerate(request, fail, CHOOSE d \in DecodedTexts : TRUE)

ConvSpec == LoadedInit /\ [][ConvNext]_vars

-----------------------------------------------------------------------------
\* Vocabulary of the properties

Last(s) == s[Len(s)]
Loaded == JsonDumps([status |-> <<"loaded">>])
Failed == JsonDumps([status |-> <<"failed">>])
NotLoaded == JsonDumps([error |-> <<"Model not loaded">>])
TestReply(loaded) == JsonDumps([status |-> <<"ok">>, model_loaded |-> loaded])
IsTestReply(out) == out \in {TestReply(TRUE), TestReply(FALSE)}
IsSuccess(out) == "json" \in DOMAIN out /\ DOMAIN out.json = {"text", "status"}
IsError(out) == "json" \in DOMAIN out /\ DOMAIN out.json = {"error"}
HasPrefix(s, prefix) == Len(s) >= Len(prefix) /\ SubSeq(s, 1, Len(prefix)) = prefix

\* the step reads a line: the line it reads, the output and the backend calls it adds
ReadsLine == Len(stdin') = Len(stdin) + 1
LineRead == Last(stdin')
Written == SubSeq(stdout', Len(stdout) + 1, Len(stdout'))
Called == SubSeq(backend', Len(backend) + 1, Len(backend'))

\* a line the loop owes a response: not empty once trimmed, no shutdown command
Answerable(line) == Strip(line) # <<>> /\ ~IsCommand(line, "shutdown")

\* response `out` is one the handler of `line` writes
Answers(out, line) ==
    IF Parsed(line).raised THEN IsError(out) /\ HasPrefix(out.json.error, <<"Invalid JSON: ">>)
    ELSE IF ~IsRequest(line) THEN IsError(out)
    ELSE IF IsCommand(line, "load_model") THEN out \in {Loaded, Failed}
    ELSE IF IsCommand(line, "generate") THEN IsError(out) \/ IsSuccess(out)
    ELSE IF IsCommand(line, "test") THEN IsTestReply(out)
    ELSE IsError(out) /\ HasPrefix(out.json.error, <<"Unknown command: ">>)

-----------------------------------------------------------------------------
\* C1: whenever the loop is about to read a line, the output after READY holds
\* exactly one response for each line read so far that is not empty once
\* trimmed and is no shutdown command, in the order of those lines, and none
\* for the other lines: every response is written before the next line is read.
C1_OneResponsePerLineInOrder ==
    pc # "start" =>
        LET asked == SelectSeq(stdin, Answerable)
            replies == Tail(stdout)
        IN  /\ Len(replies) = Len(asked)
            /\ \A i \in 1..Len(asked) : Answers(replies[i], asked[i])

\* three lines read, one of them blank, the two others answered differently
C1_Witness ==
    /\ Len(stdin) = MaxLines
    /\ \E i \in 1..Len(stdin) : Strip(stdin[i]) = <<>> /\ stdin[i] # <<>>
    /\ Len(stdout) = MaxLines
    /\ stdout[2] = Failed
    /\ IsTestReply(stdout[3])

\* C2: a generate command read while server.model is None writes the one
\* response {"error": "Model not loaded"}, calls nothing of the backend and
\* leaves model, tokenizer and device as they were.
C2_GenerateNotLoaded ==
    [][(ReadsLine /\ IsCommand(LineRead, "generate") /\ model = PyNone) =>
            /\ Written = <<NotLoaded>>
            /\ Called = <<>>
            /\ server' = server
            /\ pc' = "loop"]_vars

\* generate was refused after a load that got the tokenizer and not the model
C2_Witness ==
    /\ Len(stdout) = 3
    /\ stdout[2] = Failed
    /\ stdout[3] = NotLoaded
    /\ tokenizer # PyNone
    /\ model = PyNone

\* C3: server.model is set only if a load_model command answered
\* {"status": "loaded"} before, and a {text, status: "success"} response is
\* written only after a {"status": "loaded"} response.
C3_LoadedOnlyAfterLoadSucceeded ==
    /\ model # PyNone => \E i \in 1..Len(stdout) : stdout[i] = Loaded
    /\ \A j \in 1..Len(stdout) :
            IsSuccess(stdout[j]) => \E i \in 1..(j - 1) : stdout[i] = Loaded

\* C4: once {"status": "loaded"} was written, server.model is set, every later
\* test response has model_loaded true and no later response is
\* {"error": "Model not loaded"}.
C4_LoadedStaysLoaded ==
    \A i \in 1..Len(stdout) :
        stdout[i] = Loaded =>
            /\ model # PyNone
            /\ \A j \in (i + 1)..Len(stdout) :
                    /\ stdout[j] # NotLoaded
                    /\ IsTestReply(stdout[j]) => stdout[j] = TestReply(TRUE)

\* a load succeeded, the next one failed, and generate was still admitted
C4_Witness ==
    /\ Len(stdout) = 4
    /\ stdout[2] = Loaded
    /\ stdout[3] = Failed
    /\ IsSuccess(stdout[4])

\* the response to the last load_model command before output line j, if any
LastLoadReplyBefore(j) ==
    LET loads == {i \in 1..(j - 1) : stdout[i] \in {Loaded, Failed}}
    IN  IF loads = {} THEN Failed
        ELSE stdout[CHOOSE i \in loads : \A k \in loads : k <= i]

\* C5 as stated: every test response has model_loaded true exactly when the
\* most recent load_model response before it is {"status": "loaded"}, and
\* false when there is none.
C5_TestReportsLastLoadOutcome ==
    \A j \in 1..Len(stdout) :
        IsTestReply(stdout[j]) =>
            stdout[j] = TestReply(LastLoadReplyBefore(j) = Loaded)

\* C5 amended: a test response has model_loaded true whenever some load_model
\* response before it is {"status": "loaded"}, whatever the later loads
\* answered, and false when no load_model was answered before it; at the time
\* it is written it tells whether server.model is set.
C5_TestReportsModelSet ==
    /\ \A j \in 1..Len(stdout) :
            IsTestReply(stdout[j]) =>
                /\ (\E i \in 1..(j - 1) : stdout[i] = Loaded) => stdout[j] = TestReply(TRUE)
                /\ (\A i \in 1..(j - 1) : stdout[i] \notin {Loaded, Failed}) =>
                        stdout[j] = TestReply(FALSE)
    /\ (stdout # <<>> /\ IsTestReply(Last(stdout))) => Last(stdout) = TestReply(model # PyNone)

\* a load succeeded, the next one failed, and test still says loaded
C5_Witness ==
    /\ Len(stdout) = 4
    /\ stdout[2] = Loaded
    /\ stdout[3] = Failed
    /\ stdout[4] = TestReply(TRUE)

\* C6: a test command calls nothing of the backend, leaves model, tokenizer
\* and device as they were and writes the one response {status: "ok",
\* model_loaded: server.model is set}; a test right after a test writes the
\* response the first one wrote.
C6_TestTouchesNothing ==
    [][(ReadsLine /\ IsCommand(LineRead, "test")) =>
            /\ Called = <<>>
            /\ server' = server
            /\ Written = <<TestReply(model # PyNone)>>
            /\ (stdin # <<>> /\ IsCommand(Last(stdin), "test")) =>
                    Last(stdout') = Last(stdout)]_vars

\* a load, then two tests in a row with the same response
C6_Witness ==
    /\ Len(stdin) = 3
    /\ IsCommand(stdin[1], "load_model")
    /\ IsCommand(stdin[2], "test")
    /\ IsCommand(stdin[3], "test")
    /\ Len(stdout) = 4
    /\ stdout[3] = stdout[4]
    /\ stdout[4] = TestReply(TRUE)

\* the calls are one run of load: each step once, in order, nothing after a raise
IsOneLoad(calls) ==
    /\ Len(calls) >= 1
    /\ calls[1].op = "AutoTokenizer.from_pretrained"
    /\ \A i \in 2..Len(calls) :
            /\ calls[i].op # "AutoTokenizer.from_pretrained"
            /\ ~calls[i - 1].raised
    /\ \A i, j \in 1..Len(calls) : calls[i].op = calls[j].op => i = j

\* C7: a load_model command, with server.model set or not, runs the backend
\* load once and writes the one response {"status": "loaded"} if no step of it
\* raised and {"status": "failed"} if one did; the loop goes on.
C7_LoadModelReportsStatus ==
    [][(ReadsLine /\ IsCommand(LineRead, "load_model")) =>
            /\ IsOneLoad(Called)
            /\ Written = <<IF \E i \in 1..Len(Called) : Called[i].raised
                           THEN Failed ELSE Loaded>>
            /\ pc' = "loop"]_vars

\* a load failed with the model set, after a load that failed without
C7_Witness ==
    /\ pc = "loop"
    /\ Len(stdout) = 4
    /\ stdout[2] = Failed
    /\ stdout[3] = Loaded
    /\ stdout[4] = Failed
    /\ model = Handle(2)

\* the generate command of the line fails: the conversation cannot be built or
\* a call into the backend raises
GenerateFails(line, calls) ==
    \/ HistoryRaises(DictGet(Request(line), "history", PyList(<<>>)))
    \/ \E i \in 1..Len(calls) : calls[i].raised

\* C8: an admitted generate command (server.model set) of which a step fails
\* writes the one response {error: <message>}, calls no backend step twice
\* and none after the one that raised, leaves model, tokenizer and device as
\* they were, and the loop goes on.
C8_GenerateFailureRecovered ==
    [][(/\ ReadsLine
        /\ IsCommand(LineRead, "generate")
        /\ model # PyNone
        /\ GenerateFails(LineRead, Called)) =>
            /\ Len(Written) = 1
            /\ IsError(Written[1])
            /\ Written[1] # NotLoaded
            /\ \A i, j \in 1..Len(Called) : Called[i].op = Called[j].op => i = j
            /\ \A i \in 1..Len(Called) : Called[i].raised => i = Len(Called)
            /\ server' = server
            /\ pc' = "loop"]_vars

\* model.generate raised, the error was written and the next line was answered
C8_Witness ==
    /\ Len(stdout) = 4
    /\ stdout[2] = Loaded
    /\ stdout[3] = JsonDumps([error |-> <<"model.generate">>])
    /\ stdout[4] = TestReply(TRUE)
    /\ \E i \in 1..Len(backend) : backend[i].op = "model.generate" /\ backend[i].raised

\* the line is not empty once trimmed and is not the text of one JSON object
NotAJsonObject(line) ==
    /\ Strip(line) # <<>>
    /\ Parsed(line).raised \/ Parsed(line).value.t # "dict"

\* C9: a line that is not empty and is not the text of one JSON object writes
\* the one response {error: "Invalid JSON: ..."}, calls nothing of the backend,
\* leaves model, tokenizer and device as they were, and the loop goes on.
C9_NotAnObjectIsInvalidJson ==
    [][(ReadsLine /\ NotAJsonObject(LineRead)) =>
            /\ Len(Written) = 1
            /\ IsError(Written[1])
            /\ HasPrefix(Written[1].json.error, <<"Invalid JSON: ">>)
            /\ Called = <<>>
            /\ server' = server
            /\ pc' = "loop"]_vars

\* C10: a shutdown command ends the loop and writes nothing, calls nothing and
\* changes nothing of the server; once the loop has ended no line is read and
\* nothing is written, called or changed; so a shutdown line is the last line
\* read.
C10_ShutdownIsTerminal ==
    /\ [][(ReadsLine /\ IsCommand(LineRead, "shutdown")) =>
            /\ pc' = "done"
            /\ Written = <<>>
            /\ Called = <<>>
            /\ server' = server]_vars
    /\ [][pc = "done" => UNCHANGED vars]_vars
    /\ [](\A i \in 1..Len(stdin) :
            IsCommand(stdin[i], "shutdown") => i = Len(stdin) /\ pc = "done")

\* the loop ended on a shutdown that followed an answered command
C10_Witness ==
    /\ pc = "done"
    /\ Len(stdin) = 2
    /\ IsCommand(stdin[1], "test")
    /\ IsCommand(stdin[2], "shutdown")
    /\ stdout = <<READY, TestReply(FALSE)>>

\* the response is one of the error responses
IsErrorReply(out) == IsError(out) \/ out = Failed

\* C11: the loop ends, and it ends only by reading a shutdown command or by
\* finding the input exhausted, both of which write nothing and leave the
\* server as it was; a step that writes an error response (invalid JSON,
\* unknown command, model not loaded, load failed, generation failed) leaves
\* the loop running.
C11_LoopTerminatesOnlyAtEndOrShutdown ==
    /\ <>(pc = "done")
    /\ [][(pc = "loop" /\ pc' = "done") =>
            /\ stdin' = stdin \/ (ReadsLine /\ IsCommand(LineRead, "shutdown"))
            /\ Written = <<>>
            /\ Called = <<>>
            /\ server' = server]_vars
    /\ [][(ReadsLine /\ Written # <<>> /\ IsErrorReply(Written[1])) => pc' = "loop"]_vars

\* the input ended after three lines that were each answered with an error
C11_Witness ==
    /\ pc = "done"
    /\ Len(stdin) = 3
    /\ Len(stdout) = 4
    /\ \A i \in 2..4 : IsErrorReply(stdout[i])
    /\ \A i \in 1..3 : ~IsCommand(stdin[i], "shutdown")
    /\ \E i \in 1..3 : IsCommand(stdin[i], "load_model")
    /\ \E i \in 1..3 : IsCommand(stdin[i], "generate")

\* C12: READY is the first line written and is written once, before any
\* line is read and before any call into the backend; every line written
\* after it is a JSON response.
C12_ReadyFirstAndOnce ==
    /\ stdout = <<>> => stdin = <<>> /\ backend = <<>>
    /\ stdin = <<>> => backend = <<>>
    /\ stdout # <<>> =>
            /\ stdout[1] = READY
            /\ \A i \in 2..Len(stdout) : stdout[i] # READY /\ "json" \in DOMAIN stdout[i]

\* READY, then a load and two more responses
C12_Witness ==
    /\ Len(stdout) = 4
    /\ stdout[1] = READY
    /\ stdout[2] = Loaded
    /\ Len(backend) >= 2

\* C13: a JSON object whose command is missing or is none of load_model,
\* generate, test, shutdown writes the one response
\* {error: "Unknown command: <command>"} (None for a missing command), calls
\* nothing of the backend, leaves model, tokenizer and device as they were,
\* and the loop goes on.
C13_UnknownCommand ==
    [][(/\ ReadsLine
        /\ IsRequest(LineRead)
        /\ \A name \in Commands : ~IsCommand(LineRead, name)) =>
            /\ Written \in {<<JsonDumps([error |-> <<"Unknown command: ", "None">>])>>,
                            <<JsonDumps([error |-> <<"Unknown command: ", "bogus">>])>>}
            /\ Written[1].json.error[2] = "None" <=> "command" \notin DOMAIN Request(LineRead)
            /\ Called = <<>>
            /\ server' = server
            /\ pc' = "loop"]_vars

\* an object with no command and one with an unknown command, after a load
C13_Witness ==
    /\ pc = "loop"
    /\ stdout = <<READY, Loaded,
                  JsonDumps([error |-> <<"Unknown command: ", "None">>]),
                  JsonDumps([error |-> <<"Unknown command: ", "bogus">>])>>

\* C19: whenever server.model is set, server.tokenizer is set, so an admitted
\* generate command finds a tokenizer.
C19_ModelImpliesTokenizer ==
    /\ model # PyNone => tokenizer # PyNone
    /\ \A i \in 1..Len(stdout) : IsSuccess(stdout[i]) => tokenizer # PyNone

\* the model is set by the second load, after a load that failed at the tokenizer
C19_Witness ==
    /\ model = Handle(2)
    /\ tokenizer = Handle(2)
    /\ backend[1] = Call("AutoTokenizer.from_pretrained", TRUE)
    /\ stdout[2] = Failed
    /\ Len(stdout) = 4
    /\ stdout[4] = Failed

\* the request a step serves, and its fields with the defaults of lines 192-196
Served == Last(stdin')
ServedHistory == IF "history" \in DOMAIN Served THEN Served.history.items ELSE <<>>
ServedPrompt == IF "prompt" \in DOMAIN Served THEN Served.prompt ELSE PyStr(<<>>)

\* C14: for an admitted generate request with a history of n strings, the
\* conversation handed to the backend has n + 2 messages: the only system
\* message first, then history[i] verbatim with role user for even i and
\* assistant for odd i (i from 0), then the prompt with role user.
C14_ConversationShape ==
    [][ReadsLine =>
            LET msgs == Called[1].messages
                n == Len(ServedHistory)
            IN  /\ Called[1].op = "tokenizer.apply_chat_template"
                /\ Len(msgs) = n + 2
                /\ msgs[1].role = "system"
                /\ \A k \in 2..Len(msgs) : msgs[k].role # "system"
                /\ \A i \in 0..(n - 1) :
                        /\ msgs[2 + i].content = ServedHistory[i + 1]
                        /\ msgs[2 + i].role = "user" <=> i % 2 = 0
                        /\ msgs[2 + i].role = "assistant" <=> i % 2 = 1
                /\ msgs[n + 2] = [role |-> "user", content |-> ServedPrompt]]_vars

\* a history of odd length was served: five messages, the last two both user
C14_Witness ==
    /\ Len(stdin) = 2
    /\ "history" \in DOMAIN stdin[2]
    /\ Len(stdin[2].history.items) = 3
    /\ Len(backend[Len(LoadCalls("none")) + 1].messages) = 5
    /\ backend[Len(LoadCalls("none")) + 1].messages[4].role = "user"
    /\ backend[Len(LoadCalls("none")) + 1].messages[5].role = "user"

\* the request names a target language: the field is there and is a string
\* that is not empty
NamesTargetLang(request) ==
    /\ "target_lang" \in DOMAIN request
    /\ request.target_lang # PyNone
    /\ request.target_lang # PyStr(<<>>)

\* C17: the system message of the conversation handed to the backend is the
\* translation instruction with target_lang in it when the request names a
\* target language, and the default persona message when target_lang is
\* absent, null or the empty string.
C17_SystemMessage ==
    [][ReadsLine =>
            LET system == Called[1].messages[1]
            IN  /\ system.role = "system"
                /\ NamesTargetLang(Served) =>
                        system.content =
                            PyStr(<<"You are a helpful assistant that translates text to ">>
                                  \o Served.target_lang.s
                                  \o <<". Continue the conversation without explanation.">>)
                /\ ~NamesTargetLang(Served) =>
                        system.content =
                            PyStr(<<"You are Qwen, created by Alibaba Cloud. You are a helpful assistant.">>)]_vars

\* a request with the empty string as target_lang got the default persona
C17_Witness ==
    /\ Len(stdin) = 2
    /\ "target_lang" \in DOMAIN stdin[2]
    /\ stdin[2].target_lang = PyStr(<<>>)
    /\ Len(backend[Len(LoadCalls("none")) + 1].messages[1].content.s) = 1

\* the number is greater than zero
Positive(v) == (v.t = "int" /\ v.n >= 1) \/ (v.t = "float" /\ v.tenths >= 1)

\* C18: an admitted generate command calls model.generate at most once, with
\* max_new_tokens the request's max_tokens (128 when absent), temperature
\* the request's temperature (0.7 when absent) and sampling on exactly when
\* that temperature is greater than zero.
C18_GenerationParameters ==
    [][ReadsLine =>
            LET gens == SelectSeq(Called, LAMBDA c : c.op = "model.generate")
                max_tokens == IF "max_tokens" \in DOMAIN Served
                              THEN Served.max_tokens ELSE PyInt(128)
                temperature == IF "temperature" \in DOMAIN Served
                               THEN Served.temperature ELSE PyFloat(7)
            IN  /\ Len(gens) <= 1
                /\ \A i \in 1..Len(gens) :
                        /\ gens[i].max_new_tokens = max_tokens
                        /\ gens[i].temperature = temperature
                        /\ gens[i].do_sample = Positive(temperature)]_vars

\* temperature 0 and no max_tokens: generated without sampling, 128 tokens
C18_Witness ==
    /\ Len(stdin) = 2
    /\ "temperature" \in DOMAIN stdin[2]
    /\ stdin[2].temperature = PyInt(0)
    /\ "max_tokens" \notin DOMAIN stdin[2]
    /\ \E i \in 1..Len(backend) :
            /\ backend[i].op = "model.generate"
            /\ ~backend[i].do_sample
            /\ backend[i].max_new_tokens = PyInt(128)
    /\ IsSuccess(Last(stdout))

\* the places where sep occurs in s
Occurrences(s, sep) ==
    {i \in 1..Len(s) : \A k \in 1..Len(sep) : i + k - 1 <= Len(s) /\ s[i + k - 1] = sep[k]}
Greatest(S) == CHOOSE i \in S : \A j \in S : j <= i
Least(S) == CHOOSE i \in S : \A j \in S : i <= j
\* the part of s after the last occurrence of sep
AfterLast(s, sep) == SubSeq(s, Greatest(Occurrences(s, sep)) + Len(sep), Len(s))
\* s without its leading and trailing whitespace
Trimmed(s) ==
    LET kept == {i \in 1..Len(s) : s[i] \notin {" ", "\n"}}
    IN  IF kept = {} THEN <<>> ELSE SubSeq(s, Least(kept), Greatest(kept))
\* what the extractor is to return for the decoded text
Extracted(text) ==
    IF Occurrences(text, <<"assistant", "\n">>) # {}
    THEN Trimmed(AfterLast(text, <<"assistant", "\n">>))
    ELSE IF Occurrences(text, <<"assistant">>) # {}
    THEN Trimmed(AfterLast(text, <<"assistant">>))
    ELSE text

\* C15: the text of a success response is the decoded text after its last
\* "assistant\n", trimmed, if it has one; else the decoded text after its
\* last "assistant", trimmed, if it has one; else the decoded text as it is.
C15_ExtractAfterLastMarker ==
    [][ReadsLine =>
            Written = <<JsonDumps([text |-> Extracted(Last(Called).returned),
                                   status |-> <<"success">>])>>]_vars

\* the marker with newline wins over a bare marker that comes later
C15_Witness ==
    /\ Len(stdin) = 2
    /\ Last(backend).returned = <<"assistant", "\n", "x", "assistant">>
    /\ Last(stdout).json.text = <<"x", "assistant">>

\* the two requests agree on prompt, target_lang and history
SameConversationFields(a, b) ==
    \A k \in {"prompt", "target_lang", "history"} :
        /\ k \in DOMAIN a <=> k \in DOMAIN b
        /\ k \in DOMAIN a => a[k] = b[k]

\* the conversations handed to the backend so far, one for each request served
Conversations == SelectSeq(backend, LAMBDA c : c.op = "tokenizer.apply_chat_template")

\* C16: any two generate requests of a run that agree on prompt, target_lang
\* and history are handed to the backend with the same conversation,
\* whatever was served between them and whatever their other fields are.
C16_ConversationDependsOnRequestOnly ==
    /\ Len(Conversations) = Len(stdin) - 1
    /\ \A i, j \in 1..Len(Conversations) :
            SameConversationFields(stdin[i + 1], stdin[j + 1]) =>
                Conversations[i].messages = Conversations[j].messages

\* the same request before and after one with another history
C16_Witness ==
    /\ Len(stdin) = 4
    /\ stdin[2] = GenerateFr
    /\ stdin[4] = GenerateFr
    /\ stdin[3] # GenerateFr
    /\ "history" \in DOMAIN stdin[3]
    /\ Conversations[1].messages = Conversations[3].messages
    /\ Conversations[1].messages # Conversations[2].messages

====
